---- MODULE Spec2Model ----
(***************************************************************************)
(* ENS MCP server: provider list, fallback transport, enriched-client      *)
(* factory, error classifier and the eight operation handlers.             *)
(*                                                                         *)
(* Strings that the code inspects character by character (PROVIDER_URL)    *)
(* are sequences of one-character strings.  Error messages, which the code *)
(* only searches for fixed phrases, are sequences of words.                *)
(***************************************************************************)
EXTENDS Integers, Sequences, FiniteSets, TLC

VARIABLES
    env,          \* process.env.PROVIDER_URL: a string, or Undefined
    loaded,       \* clients module evaluated?
    providerUrls, \* the providerUrls captured by createJustaNameClient
    transports,   \* the endpoint transports handed to fallback(), in order
    heldClient,   \* the factory's `let client`
    justaname,    \* the exported `client` property of the factory result
    rot,          \* the last retry(currentIndex) call and its outcome
    calls,        \* the Fallback Transport calls in flight, one per slot
    h,            \* the operation handler invocation in flight
    cls           \* the last handleEnsError(error, operation) evaluation

vars == <<env, loaded, providerUrls, transports, heldClient, justaname, rot, calls, h, cls>>

----------------------------------------------------------------------------
(* JavaScript values *)

\* JS `undefined`, kept apart from every string of the model
Undefined == <<"undefined">>

\* JS truthiness of a string-or-undefined value
Truthy(s) == s # Undefined /\ s # <<>>

\* arr[i] of a JS array: undefined outside 0..length-1
At(arr, i) == IF i \in 0..(Len(arr) - 1) THEN arr[i + 1] ELSE Undefined

Range(s) == {s[i] : i \in DOMAIN s}

----------------------------------------------------------------------------
(* Provider List Resolver *)

\* the four built-in endpoints, each URL abbreviated to one character
DEFAULT_PROVIDERS == << <<"d">>, <<"e">>, <<"f">>, <<"g">> >>

\* String.prototype.includes for a one-character needle
includes(s, c) == \E i \in 1..Len(s) : s[i] = c

\* String.prototype.split on a one-character separator
RECURSIVE split(_, _)
split(s, sep) ==
    IF ~includes(s, sep) THEN <<s>>
    ELSE LET i == CHOOSE k \in 1..Len(s) : s[k] = sep /\ \A j \in 1..(k - 1) : s[j] # sep
         IN  <<SubSeq(s, 1, i - 1)>> \o split(SubSeq(s, i + 1, Len(s)), sep)

RECURSIVE trimStart(_)
trimStart(s) == IF s # <<>> /\ Head(s) = " " THEN trimStart(Tail(s)) ELSE s

RECURSIVE trimEnd(_)
trimEnd(s) == IF s # <<>> /\ s[Len(s)] = " " THEN trimEnd(SubSeq(s, 1, Len(s) - 1)) ELSE s

\* String.prototype.trim
trim(s) == trimEnd(trimStart(s))

getProviderUrls(envProvider) ==
    IF Truthy(envProvider) /\ includes(envProvider, ",")
    THEN LET parts == split(envProvider, ",")
         IN  [i \in 1..Len(parts) |-> trim(parts[i])]
    ELSE IF Truthy(envProvider)
    THEN <<envProvider>> \o SelectSeq(DEFAULT_PROVIDERS, LAMBDA url : url # envProvider)
    ELSE DEFAULT_PROVIDERS

----------------------------------------------------------------------------
(* Fallback Transport configuration *)

Timeout == 10000
RetryCount == 3
RetryDelay == 1000

\* the mutant: the endpoint transports are built without a retry budget
httpNoRetry(url) == [url |-> url, timeout |-> Timeout, retryCount |-> 0,
                     retryDelay |-> RetryDelay]

\* http(url, {timeout, fetchOptions, retryCount, retryDelay})
http(url) == [url |-> url, timeout |-> Timeout, retryCount |-> RetryCount,
              retryDelay |-> RetryDelay]

\* providerUrls.map(url => http(url, ...)), handed to fallback() in this order
configureTransport(urls) == [i \in 1..Len(urls) |-> http(urls[i])]

----------------------------------------------------------------------------
(* Resolution Client Factory *)

\* JustaName.init({networks: [{chainId: 1, providerUrl}]})
JustaNameInit(url) == [chainId |-> 1, providerUrl |-> url]

NoRotate == [idx |-> 0, outcome |-> "none", before |-> JustaNameInit(Undefined),
             returned |-> JustaNameInit(Undefined)]

\* evaluation of the clients module: publicClient = createEnsPublicClient(...)
\* over configureTransport(), then createJustaNameClient(), whose `client`
\* property is exported as justaname
LoadClients ==
    /\ ~loaded
    /\ loaded' = TRUE
    /\ transports' = configureTransport(getProviderUrls(env))
    /\ providerUrls' = getProviderUrls(env)
    /\ heldClient' = JustaNameInit(At(providerUrls', 0))
    /\ justaname' = heldClient'
    /\ UNCHANGED <<env, rot, calls, h, cls>>

\* the mutant: the last index is let through
retryGuardOffByOne(currentIndex) == currentIndex > Len(providerUrls) - 1

\* if (currentIndex >= providerUrls.length - 1) throw new Error("All providers failed")
retryExhausted(currentIndex) == currentIndex >= Len(providerUrls) - 1

\* retry: async (currentIndex = 0) => {...}; it has no await, so it is one step
retry(currentIndex) ==
    /\ loaded
    /\ IF retryExhausted(currentIndex)
       THEN /\ rot' = [idx |-> currentIndex, outcome |-> "All providers failed",
                       before |-> heldClient, returned |-> JustaNameInit(Undefined)]
            /\ UNCHANGED heldClient
       ELSE /\ heldClient' = JustaNameInit(At(providerUrls, currentIndex + 1))
            /\ rot' = [idx |-> currentIndex, outcome |-> "returned",
                       before |-> heldClient, returned |-> heldClient']
    /\ UNCHANGED <<env, loaded, providerUrls, transports, justaname, calls, h, cls>>

----------------------------------------------------------------------------
(* Fallback Transport: one call of the transport fallback(transports) returns.
   viem runs the endpoint transports in the order of the array it was given,
   one request at a time; each http transport retries a failed request
   retryCount times before its failure reaches fallback, which then moves to
   the next transport, and throws the last failure when none is left. *)

IdleCall == [status |-> "idle", ep |-> 0, attempt |-> 0, log |-> <<>>,
             afterFallback |-> FALSE]

\* the mutant: a call starts at the endpoint that served a finished call
stickyStart ==
    IF \E s \in DOMAIN calls : calls[s].status = "ok"
    THEN calls[CHOOSE s \in DOMAIN calls : calls[s].status = "ok"].ep
    ELSE 0

\* fallback(transports) is given no rank option: every call starts at transports[0]
startEndpoint == 0

\* a call is issued on the transport; afterFallback records that an earlier
\* call had already fallen back or failed when this one started
startCall(sawFallback) ==
    [status |-> "running", ep |-> startEndpoint, attempt |-> 0, log |-> <<>>,
     afterFallback |-> sawFallback]

\* the request to the current endpoint is answered
onSuccess(c) ==
    [c EXCEPT !.status = "ok", !.log = Append(c.log, [ep |-> c.ep, ok |-> TRUE])]

\* the request to the current endpoint fails: retry it while the endpoint's
\* retryCount lasts, then fall back to the next transport, then give up
onFailure(c) ==
    LET logged == [c EXCEPT !.log = Append(c.log, [ep |-> c.ep, ok |-> FALSE])]
    IN  IF c.attempt < transports[c.ep + 1].retryCount
        THEN [logged EXCEPT !.attempt = c.attempt + 1]
        ELSE IF c.ep < Len(transports) - 1
        THEN [logged EXCEPT !.ep = c.ep + 1, !.attempt = 0]
        ELSE [logged EXCEPT !.status = "failed"]

FellBack(c) == (c.status = "ok" /\ c.ep > 0) \/ c.status = "failed"

StartCall(s) ==
    /\ loaded
    /\ calls[s].status # "running"
    /\ calls' = [calls EXCEPT ![s] = startCall(\E t \in DOMAIN calls : FellBack(calls[t]))]
    /\ UNCHANGED <<env, loaded, providerUrls, transports, heldClient, justaname, rot, h, cls>>

AttemptOk(s) ==
    /\ calls[s].status = "running"
    /\ calls' = [calls EXCEPT ![s] = onSuccess(calls[s])]
    /\ UNCHANGED <<env, loaded, providerUrls, transports, heldClient, justaname, rot, h, cls>>

AttemptFail(s) ==
    /\ calls[s].status = "running"
    /\ calls' = [calls EXCEPT ![s] = onFailure(calls[s])]
    /\ UNCHANGED <<env, loaded, providerUrls, transports, heldClient, justaname, rot, h, cls>>

----------------------------------------------------------------------------
(* Error Classifier.  A message is a sequence of words; a thrown value is
   [isError, message]: isError is `instanceof Error`, message is error.message
   of an Error and the String() form of any other thrown value. *)

\* String.prototype.includes for a phrase: a contiguous run of words
Has(msg, phrase) ==
    \E i \in 0..(Len(msg) - Len(phrase)) : SubSeq(msg, i + 1, i + Len(phrase)) = phrase

NetworkPrefix == "Network error while accessing Ethereum providers. Please check your internet connection or try again later. Technical details:"
EnsPrefix == "ENS error:"
InvalidPrefix == "Invalid input:"
UnknownPrefix == "Error during"

\* String(error)
StringOf(error) ==
    IF ~error.isError THEN error.message
    ELSE IF error.message = <<>> THEN <<"Error">>
    ELSE <<"Error:">> \o error.message

\* the mutant: the "ENS" rule is tried before the network rule
handleEnsErrorEnsFirst(error, operation) ==
    LET errorMessage == IF error.isError THEN error.message ELSE <<>>
    IN  IF error.isError /\ Has(errorMessage, <<"ENS">>)
        THEN <<EnsPrefix>> \o errorMessage
        ELSE IF error.isError /\ ( \/ Has(errorMessage, <<"fetch", "failed">>)
                                   \/ Has(errorMessage, <<"timeout">>)
                                   \/ Has(errorMessage, <<"network">>)
                                   \/ Has(errorMessage, <<"HTTP", "request", "failed">>) )
        THEN <<NetworkPrefix>> \o errorMessage
        ELSE IF error.isError /\ ( \/ Has(errorMessage, <<"invalid">>)
                                   \/ Has(errorMessage, <<"parameter">>) )
        THEN <<InvalidPrefix>> \o errorMessage
        ELSE <<UnknownPrefix, operation, ":">>
                 \o (IF errorMessage # <<>> THEN errorMessage ELSE StringOf(error))

handleEnsError(error, operation) ==
    LET errorMessage == IF error.isError THEN error.message ELSE <<>>
    IN  IF error.isError /\ ( \/ Has(errorMessage, <<"fetch", "failed">>)
                              \/ Has(errorMessage, <<"timeout">>)
                              \/ Has(errorMessage, <<"network">>)
                              \/ Has(errorMessage, <<"HTTP", "request", "failed">>) )
        THEN <<NetworkPrefix>> \o errorMessage
        ELSE IF error.isError /\ Has(errorMessage, <<"ENS">>)
        THEN <<EnsPrefix>> \o errorMessage
        ELSE IF error.isError /\ ( \/ Has(errorMessage, <<"invalid">>)
                                   \/ Has(errorMessage, <<"parameter">>) )
        THEN <<InvalidPrefix>> \o errorMessage
        ELSE <<UnknownPrefix, operation, ":">>
                 \o (IF errorMessage # <<>> THEN errorMessage ELSE StringOf(error))

\* the operation labels the handlers pass to handleEnsError
Label ==
    [resolveName |-> "name resolution", reverseLookup |-> "reverse lookup",
     getTextRecord |-> "getting records", checkAvailability |-> "name availability check",
     getAllRecords |-> "ens information", getSubdomains |-> "getting subdomains",
     getNameHistory |-> "get name history", getRegistrationPrice |-> "get registration price"]

Handlers == DOMAIN Label

----------------------------------------------------------------------------
(* Operation handlers.  A name is a sequence of labels, ".eth" being one
   label; an upstream call that resolves yields "value" or "absent" (null,
   undefined, false or an empty list, as the call has it). *)

\* name.endsWith('.eth')
endsWithEth(name) == name # <<>> /\ name[Len(name)] = ".eth"

\* name.endsWith('.eth') ? name : `${name}.eth`
normalizeName(name) == IF endsWithEth(name) THEN name ELSE name \o <<".eth">>

\* ethers.isAddress(address)
isAddress(address) == address = <<"0xabc">>

TypeErrorUndefined == [isError |-> TRUE, message |-> <<"Cannot", "read", "properties", "of", "undefined">>]

NoEnvelope == [content |-> <<>>, isError |-> FALSE]

NoHandler ==
    [pc |-> "idle", op |-> "none", name |-> <<>>, normalizedName |-> <<>>,
     step |-> "none", call |-> IdleCall, sent |-> <<>>, output |-> <<>>,
     raised |-> FALSE, rejected |-> FALSE, envelope |-> NoEnvelope, envelopes |-> 0,
     exception |-> <<>>]

\* return {content: [{type: "text", text}], isError}
Return(hh, isError, text) ==
    [hh EXCEPT !.pc = "returned", !.step = "none",
               !.envelope = [content |-> <<[type |-> "text", text |-> text]>>,
                             isError |-> isError],
               !.envelopes = @ + 1]

\* catch (error) { return {content: [... handleEnsError(error, label)], isError: true} }
Catch(hh, error) == Return(hh, TRUE, handleEnsError(error, Label[hh.op]))

\* an exception leaves the handler: the returned promise rejects
Throw(hh, error) == [hh EXCEPT !.pc = "thrown", !.step = "none", !.exception = error.message]

\* the mutant: the handlers see the factory's current client
enrichedClientLive == heldClient

\* import {justaname} from "../clients/index.js": the client getAllRecords queries
enrichedClient == justaname

\* await client.method({name: arg}); publicClient goes through the Fallback
\* Transport, justaname through its own single endpoint.  A justaname call is
\* logged with the endpoint it is bound to and, for reference, the endpoint
\* of the factory's current client at that moment.
Issue(hh, client, method, arg) ==
    [hh EXCEPT !.pc = "await", !.step = method,
               !.sent = Append(@, [client |-> client, method |-> method, arg |-> arg,
                                   endpoint |-> IF client = "justaname"
                                                THEN enrichedClient.providerUrl
                                                ELSE <<"fallback">>,
                                   held |-> IF client = "justaname"
                                            THEN heldClient.providerUrl
                                            ELSE <<"fallback">>]),
               !.call = IF client = "publicClient" THEN startCall(FALSE) ELSE IdleCall]

\* the first upstream call of the handlers that normalize a name first
FirstMethod ==
    [resolveName |-> "getAddressRecord", getTextRecord |-> "getTextRecord",
     checkAvailability |-> "getAvailable", getAllRecords |-> "getRecords",
     getSubdomains |-> "getSubnames", getNameHistory |-> "getNameHistory",
     getRegistrationPrice |-> "getPrice"]

\* a name handler up to its first await: normalizeName(name) is evaluated
\* before the try block, so a name that is no string throws out of the handler
nameHandlerStart(hh, op, name) ==
    IF name = Undefined
    THEN Throw([hh EXCEPT !.op = op, !.name = name], TypeErrorUndefined)
    ELSE Issue([hh EXCEPT !.op = op, !.name = name, !.normalizedName = normalizeName(name)],
               IF op = "getAllRecords" THEN "justaname" ELSE "publicClient",
               FirstMethod[op], normalizeName(name))

\* reverseLookup up to its first await: the address check is inside the try
reverseLookupStart(hh, address) ==
    IF ~isAddress(address)
    THEN Return([hh EXCEPT !.op = "reverseLookup", !.name = address, !.rejected = TRUE],
                TRUE, <<"Invalid Ethereum address:">> \o address)
    ELSE Issue([hh EXCEPT !.op = "reverseLookup", !.name = address],
               "publicClient", "getName", address)

resolveNameResult(hh, r) ==
    IF r = "absent"
    THEN Return(hh, FALSE, <<"Could not resolve">> \o hh.normalizedName \o <<"to an address.">>)
    ELSE Return(hh, FALSE, <<"The address for">> \o hh.normalizedName \o <<"is", "0xabc">>)

reverseLookupResult(hh, r) ==
    IF r = "absent"
    THEN Return(hh, FALSE, <<"No ENS name found for address">> \o hh.name)
    ELSE Return(hh, FALSE, <<"The ENS name for">> \o hh.name \o <<"is", "vitalik", ".eth">>)

getTextRecordResult(hh, r) ==
    IF r = "absent"
    THEN Return(hh, FALSE, <<"No", "email", "record found for">> \o hh.normalizedName)
    ELSE Return(hh, FALSE, <<"The", "email", "record for">> \o hh.normalizedName
                               \o <<"is:", "v@example.org">>)

checkAvailabilityResult(hh, r) ==
    IF hh.step = "getAvailable"
    THEN IF r = "value"
         THEN Return(hh, FALSE, <<"The name">> \o hh.normalizedName
                                    \o <<"is available for registration.">>)
         ELSE Issue(hh, "publicClient", "getOwner", hh.normalizedName)
    ELSE Return(hh, FALSE, <<"The name">> \o hh.normalizedName \o <<"is already registered.">>
                               \o (IF r = "value" THEN <<"Current owner:", "0xabc">> ELSE <<>>))

getAllRecordsResult(hh, r) ==
    IF hh.step = "getRecords"
    THEN IF r = "absent"
         THEN Catch(hh, TypeErrorUndefined)
         ELSE Issue([hh EXCEPT !.output = <<"Information for">> \o hh.normalizedName
                                   \o <<"Resolver Address:", "0xres", "No text records found.",
                                        "No cryptocurrency addresses found.">>],
                    "publicClient", "getOwner", hh.normalizedName)
    ELSE IF hh.step = "getOwner"
    THEN Issue([hh EXCEPT !.output = @ \o (IF r = "value"
                                           THEN <<"Ownership Information:", "0xabc">>
                                           ELSE <<>>)],
               "publicClient", "getExpiry", hh.name)
    ELSE Return(hh, FALSE, hh.output \o (IF r = "value"
                                         THEN <<"Expiration Information:", "active">>
                                         ELSE <<>>))

getSubdomainsResult(hh, r) ==
    IF r = "absent"
    THEN Return(hh, FALSE, <<"No subdomains found for">> \o hh.name)
    ELSE Return(hh, FALSE, <<"Subdomains for">> \o hh.name \o <<"-", "sub", "vitalik", ".eth">>)

getNameHistoryResult(hh, r) ==
    IF r = "absent"
    THEN Return(hh, FALSE, <<"No history found for">> \o hh.name)
    ELSE Return(hh, FALSE, <<"History for">> \o hh.name \o <<"Domain Events:", "Transfer">>)

getRegistrationPriceResult(hh, r) ==
    IF r = "absent"
    THEN Catch(hh, TypeErrorUndefined)
    ELSE Return(hh, FALSE, <<"Registration price for">> \o hh.normalizedName
                               \o <<"for", "1", "year(s):", "Total:", "0.003", "ETH">>)

\* the handler's code after an await that resolved with r
OnResult(hh, r) ==
    CASE hh.op = "resolveName" -> resolveNameResult(hh, r)
      [] hh.op = "reverseLookup" -> reverseLookupResult(hh, r)
      [] hh.op = "getTextRecord" -> getTextRecordResult(hh, r)
      [] hh.op = "checkAvailability" -> checkAvailabilityResult(hh, r)
      [] hh.op = "getAllRecords" -> getAllRecordsResult(hh, r)
      [] hh.op = "getSubdomains" -> getSubdomainsResult(hh, r)
      [] hh.op = "getNameHistory" -> getNameHistoryResult(hh, r)
      [] hh.op = "getRegistrationPrice" -> getRegistrationPriceResult(hh, r)

\* what an upstream call can resolve with: a price is always a price
Outcomes(method) == IF method = "getPrice" THEN {"value"} ELSE {"value", "absent"}

----------------------------------------------------------------------------
(* Bounds *)

MaxNegIndex == 2
MaxIndex == 5
RotateIndices == (0 - MaxNegIndex)..MaxIndex
MaxInflight == 2
Slots == 1..MaxInflight
MaxEnvLen == 3
MaxNameLen == 2
MaxMsgLen == 3

----------------------------------------------------------------------------
(* Spec: concurrent Fallback Transport calls, with the caller-driven rotation
   retry() beside them *)

NoClassify == [done |-> FALSE, error |-> [isError |-> FALSE, message |-> <<>>],
               operation |-> "", text |-> <<>>]

\* PROVIDER_URL unset, or the two-entry list "a,d"
EnvSample == {Undefined, <<"a", ",", "d">>}

Init ==
    /\ env \in EnvSample
    /\ loaded = FALSE
    /\ providerUrls = <<>>
    /\ transports = <<>>
    /\ heldClient = JustaNameInit(Undefined)
    /\ justaname = JustaNameInit(Undefined)
    /\ rot = NoRotate
    /\ calls = [s \in Slots |-> IdleCall]
    /\ h = NoHandler
    /\ cls = NoClassify

\* retry() with its default parameter, currentIndex = 0
RetryDefault == retry(0)

Next ==
    \/ LoadClients
    \/ RetryDefault
    \/ \E s \in Slots : StartCall(s)
    \/ \E s \in Slots : AttemptOk(s)
    \/ \E s \in Slots : AttemptFail(s)

Spec == Init /\ [][Next]_vars


----------------------------------------------------------------------------
(* SpecRotate: the factory alone, retry called with any index *)

\* unset; the list "a,d"; the single overrides "a" and "d"; the list ","
EnvRotate == {Undefined, <<"a", ",", "d">>, <<"a">>, <<"d">>, <<",">>}

InitRotate ==
    /\ env \in EnvRotate
    /\ loaded = FALSE
    /\ providerUrls = <<>>
    /\ transports = <<>>
    /\ heldClient = JustaNameInit(Undefined)
    /\ justaname = JustaNameInit(Undefined)
    /\ rot = NoRotate
    /\ calls = [s \in Slots |-> IdleCall]
    /\ h = NoHandler
    /\ cls = NoClassify

NextRotate ==
    \/ LoadClients
    \/ \E i \in RotateIndices : retry(i)

SpecRotate == InitRotate /\ [][NextRotate]_vars

----------------------------------------------------------------------------
(* Claims on the Fallback Transport *)

Failure(i) == [ep |-> i, ok |-> FALSE]
Success(i) == [ep |-> i, ok |-> TRUE]

\* the failed attempts on endpoint i among the first k - 1 attempts of call c
FailedBefore(c, i, k) == Cardinality({j \in 1..(k - 1) : c.log[j] = Failure(i)})

\* C2: within one Fallback Transport call the endpoints are attempted in list
\* order, an endpoint is attempted at most 1 + retryCount times, every earlier
\* endpoint has failed 1 + retryCount = 4 times before a later one is first
\* attempted, and a finished call in which endpoint 0 failed every time and
\* endpoint 1 never failed succeeded on endpoint 1 after exactly four failed
\* attempts on endpoint 0.
C2_RetryThenFallback ==
    \A s \in Slots :
        LET c == calls[s]
        IN  /\ \A k \in 1..(Len(c.log) - 1) : c.log[k].ep <= c.log[k + 1].ep
            /\ \A i \in 0..(Len(transports) - 1) :
                   Cardinality({k \in DOMAIN c.log : c.log[k].ep = i}) <= RetryCount + 1
            /\ \A k \in DOMAIN c.log :
                   \A i \in 0..(c.log[k].ep - 1) : FailedBefore(c, i, k) = RetryCount + 1
            /\ ( /\ c.status \in {"ok", "failed"}
                 /\ \A k \in DOMAIN c.log : c.log[k].ep = 0 => ~c.log[k].ok
                 /\ \A k \in DOMAIN c.log : c.log[k].ep = 1 => c.log[k].ok )
               => /\ c.status = "ok"
                  /\ c.ep = 1
                  /\ c.log = <<Failure(0), Failure(0), Failure(0), Failure(0), Success(1)>>

\* C2 witness: a call served by endpoint 1 after endpoint 0 used up its retries
C2_Witness ==
    \E s \in Slots :
        /\ calls[s].status = "ok"
        /\ calls[s].log = <<Failure(0), Failure(0), Failure(0), Failure(0), Success(1)>>

\* C10: no step of a Fallback Transport call changes the Provider URL List,
\* the endpoint transports or their order, the held or the exported enriched
\* client, or performs a rotation; and every call, whatever calls came before
\* or run beside it, makes its first attempt on endpoint 0.
C10_TransportCallFrame ==
    /\ [][calls' # calls =>
            UNCHANGED <<env, providerUrls, transports, heldClient, justaname, rot>>]_vars
    /\ [](\A s \in Slots : calls[s].log # <<>> => calls[s].log[1].ep = 0)

\* C10 witness: one call has failed on every endpoint, another, started after
\* a fallback, is under way from endpoint 0, and nothing has rotated
C10_Witness ==
    \E s, t \in Slots :
        /\ calls[s].status = "failed"
        /\ calls[t].afterFallback
        /\ calls[t].status = "running"
        /\ calls[t].log # <<>> /\ calls[t].log[1].ep = 0
        /\ rot = NoRotate
        /\ heldClient = JustaNameInit(providerUrls[1])

----------------------------------------------------------------------------
(* Claims on the Resolution Client Factory *)

\* C4 (as claimed): after any sequence of retry calls the held client is bound
\* to a URL that is an element of the Provider URL List.
C4_HeldClientInList ==
    loaded => heldClient.providerUrl \in Range(providerUrls)

\* C5: a retry(currentIndex) with currentIndex >= providerUrls.length - 1 ends
\* with the error "All providers failed" and the held client is the one held
\* before the call.
C5_ExhaustedKeepsClient ==
    (rot.outcome # "none" /\ rot.idx >= Len(providerUrls) - 1)
        => /\ rot.outcome = "All providers failed"
           /\ heldClient = rot.before

\* C5 witness: an exhausted retry after an earlier rotation had replaced the client
C5_Witness ==
    /\ rot.outcome = "All providers failed"
    /\ rot.idx >= Len(providerUrls) - 1
    /\ heldClient = rot.before
    /\ heldClient # justaname


----------------------------------------------------------------------------
(* SpecProviders: getProviderUrls on every PROVIDER_URL of up to MaxEnvLen
   characters *)

Char == {"a", "d", " ", ","}

EnvStrings == UNION {[1..n -> Char] : n \in 0..MaxEnvLen}

InitProviders ==
    /\ env \in EnvStrings \cup {Undefined}
    /\ loaded = FALSE
    /\ providerUrls = <<>>
    /\ transports = <<>>
    /\ heldClient = JustaNameInit(Undefined)
    /\ justaname = JustaNameInit(Undefined)
    /\ rot = NoRotate
    /\ calls = [s \in Slots |-> IdleCall]
    /\ h = NoHandler
    /\ cls = NoClassify

NextProviders == LoadClients

SpecProviders == InitProviders /\ [][NextProviders]_vars

NoDuplicates(seq) == \A i, j \in DOMAIN seq : seq[i] = seq[j] => i = j

\* the endpoint the override puts first: the override itself, or the first
\* entry of a list
Preferred(e) ==
    IF ~Truthy(e) THEN DEFAULT_PROVIDERS[1]
    ELSE IF includes(e, ",") THEN trim(split(e, ",")[1])
    ELSE e

\* C6 (as claimed): for every override value the Provider URL List is
\* non-empty, has no duplicate URL and starts with the preferred endpoint.
C6_NonEmptyDedupPreferredFirst ==
    loaded => /\ Len(providerUrls) > 0
              /\ NoDuplicates(providerUrls)
              /\ providerUrls[1] = Preferred(env)

----------------------------------------------------------------------------
(* SpecClassify: handleEnsError on every thrown value whose message has up to
   MaxMsgLen words *)

Words == {"fetch", "failed", "timeout", "network", "HTTP", "request", "ENS",
          "invalid", "parameter", "name", "boom"}

Messages == UNION {[1..n -> Words] : n \in 0..MaxMsgLen}

Thrown == [isError : BOOLEAN, message : Messages]

InitClassify ==
    /\ env = Undefined
    /\ loaded = FALSE
    /\ providerUrls = <<>>
    /\ transports = <<>>
    /\ heldClient = JustaNameInit(Undefined)
    /\ justaname = JustaNameInit(Undefined)
    /\ rot = NoRotate
    /\ calls = [s \in Slots |-> IdleCall]
    /\ h = NoHandler
    /\ cls \in [done : {FALSE}, error : Thrown, operation : {Label[o] : o \in Handlers},
                text : {<<>>}]

Classify ==
    /\ ~cls.done
    /\ cls' = [cls EXCEPT !.done = TRUE, !.text = handleEnsError(cls.error, cls.operation)]
    /\ UNCHANGED <<env, loaded, providerUrls, transports, heldClient, justaname, rot, calls, h>>

NextClassify == Classify

SpecClassify == InitClassify /\ [][NextClassify]_vars

Err(msg) == [isError |-> TRUE, message |-> msg]

NetworkRule(m) ==
    \/ Has(m, <<"fetch", "failed">>) \/ Has(m, <<"timeout">>)
    \/ Has(m, <<"network">>) \/ Has(m, <<"HTTP", "request", "failed">>)
EnsRule(m) == Has(m, <<"ENS">>)
InvalidRule(m) == Has(m, <<"invalid">>) \/ Has(m, <<"parameter">>)

\* C7: handleEnsError returns exactly one of the four templates, the first in
\* the order network, ENS, invalid input, unknown whose rule the error's
\* message meets, with the message interpolated (the unknown template also
\* carries the operation label, and the String() form of an error that has no
\* message); a thrown value that is no Error has no message.
C7_FirstMatchWins ==
    /\ cls.done =>
          LET m == IF cls.error.isError THEN cls.error.message ELSE <<>>
              t == cls.text
          IN  /\ Head(t) \in {NetworkPrefix, EnsPrefix, InvalidPrefix, UnknownPrefix}
              /\ NetworkRule(m) => t = <<NetworkPrefix>> \o m
              /\ (~NetworkRule(m) /\ EnsRule(m)) => t = <<EnsPrefix>> \o m
              /\ (~NetworkRule(m) /\ ~EnsRule(m) /\ InvalidRule(m))
                     => t = <<InvalidPrefix>> \o m
              /\ (~NetworkRule(m) /\ ~EnsRule(m) /\ ~InvalidRule(m))
                     => /\ SubSeq(t, 1, 3) = <<UnknownPrefix, cls.operation, ":">>
                        /\ SubSeq(t, 4, Len(t)) = (IF m # <<>> THEN m ELSE StringOf(cls.error))
    /\ cls.error = Err(<<"fetch", "failed", "timeout">>) /\ cls.done
           => Head(cls.text) = NetworkPrefix
    /\ cls.error = Err(<<"invalid", "parameter", "name">>) /\ cls.done
           => Head(cls.text) = InvalidPrefix
    /\ cls.error = Err(<<"ENS", "name">>) /\ cls.done
           => Head(cls.text) = EnsPrefix
    /\ cls.error = Err(<<"boom">>) /\ cls.done
           => cls.text = <<UnknownPrefix, cls.operation, ":", "boom">>

\* C7 witness: a message that meets all three rules was given the network template
C7_Witness ==
    /\ cls.done
    /\ cls.error = Err(<<"ENS", "invalid", "timeout">>)
    /\ cls.text = <<NetworkPrefix, "ENS", "invalid", "timeout">>


----------------------------------------------------------------------------
(* SpecHandlers: one handler invocation, from its call to its envelope *)

NameLabels == {"vitalik", ".eth"}

\* the names a caller passes, a value that is no string among them
Names == UNION {[1..n -> NameLabels] : n \in 0..MaxNameLen} \cup {Undefined}

Addresses == {<<"0xabc">>, <<"not-an-address">>, Undefined}

\* what a failed Fallback Transport call throws: viem's HttpRequestError
\* ("HTTP request failed."), a failed fetch, viem's TimeoutError ("The request
\* took too long to respond.")
TransportErrors ==
    {Err(<<"HTTP", "request", "failed">>), Err(<<"fetch", "failed">>),
     Err(<<"The", "request", "took", "too", "long", "to", "respond">>)}

\* what the resolution libraries throw on their own
LibraryErrors ==
    {Err(<<"ENS", "name">>), Err(<<"invalid", "parameter">>), Err(<<"boom">>),
     [isError |-> FALSE, message |-> <<"boom">>]}

InitHandlers ==
    /\ env \in EnvSample
    /\ loaded = FALSE
    /\ providerUrls = <<>>
    /\ transports = <<>>
    /\ heldClient = JustaNameInit(Undefined)
    /\ justaname = JustaNameInit(Undefined)
    /\ rot = NoRotate
    /\ calls = [s \in Slots |-> IdleCall]
    /\ h = NoHandler
    /\ cls = NoClassify

InvokeNameHandler(op, name) ==
    /\ loaded
    /\ h.pc = "idle"
    /\ h' = nameHandlerStart(h, op, name)
    /\ UNCHANGED <<env, loaded, providerUrls, transports, heldClient, justaname, rot, calls, cls>>

InvokeReverseLookup(address) ==
    /\ loaded
    /\ h.pc = "idle"
    /\ h' = reverseLookupStart(h, address)
    /\ UNCHANGED <<env, loaded, providerUrls, transports, heldClient, justaname, rot, calls, cls>>

\* a request of the awaited publicClient call fails at the current endpoint;
\* when the last endpoint has used up its retries the call rejects
PublicAttemptFail ==
    /\ h.pc = "await"
    /\ h.call.status = "running"
    /\ LET c == onFailure(h.call)
       IN  IF c.status = "failed"
           THEN \E e \in TransportErrors :
                    h' = Catch([h EXCEPT !.call = c, !.raised = TRUE], e)
           ELSE h' = [h EXCEPT !.call = c]
    /\ UNCHANGED <<env, loaded, providerUrls, transports, heldClient, justaname, rot, calls, cls>>

\* the current endpoint answers and the awaited publicClient call resolves
PublicAttemptOk ==
    /\ h.pc = "await"
    /\ h.call.status = "running"
    /\ \E r \in Outcomes(h.step) : h' = OnResult([h EXCEPT !.call = onSuccess(h.call)], r)
    /\ UNCHANGED <<env, loaded, providerUrls, transports, heldClient, justaname, rot, calls, cls>>

\* the current endpoint answers and the library rejects the awaited call
PublicRaise ==
    /\ h.pc = "await"
    /\ h.call.status = "running"
    /\ \E e \in LibraryErrors :
           h' = Catch([h EXCEPT !.call = onSuccess(h.call), !.raised = TRUE], e)
    /\ UNCHANGED <<env, loaded, providerUrls, transports, heldClient, justaname, rot, calls, cls>>

\* justaname.subnames.getRecords resolves
EnrichedReturn ==
    /\ h.pc = "await"
    /\ h.step = "getRecords"
    /\ \E r \in Outcomes(h.step) : h' = OnResult(h, r)
    /\ UNCHANGED <<env, loaded, providerUrls, transports, heldClient, justaname, rot, calls, cls>>

\* justaname.subnames.getRecords rejects
EnrichedRaise ==
    /\ h.pc = "await"
    /\ h.step = "getRecords"
    /\ \E e \in LibraryErrors \cup TransportErrors : h' = Catch([h EXCEPT !.raised = TRUE], e)
    /\ UNCHANGED <<env, loaded, providerUrls, transports, heldClient, justaname, rot, calls, cls>>

NextHandlers ==
    \/ LoadClients
    \/ \E op \in DOMAIN FirstMethod : \E name \in Names : InvokeNameHandler(op, name)
    \/ \E address \in Addresses : InvokeReverseLookup(address)
    \/ PublicAttemptFail
    \/ PublicAttemptOk
    \/ PublicRaise
    \/ EnrichedReturn
    \/ EnrichedRaise

SpecHandlers == InitHandlers /\ [][NextHandlers]_vars

\* C1 (as claimed): an invocation never lets an exception leave the handler,
\* and one that has ended has returned exactly one envelope.
C1_NeverThrows ==
    /\ h.pc # "thrown"
    /\ h.pc = "returned" => h.envelopes = 1

\* C3 (as claimed): when the awaited Fallback Transport call has failed on
\* every endpoint, the handler returns an isError envelope whose text is the
\* NetworkError template, whatever the failure was.
C3_ExhaustionIsNetworkError ==
    (h.pc = "returned" /\ h.call.status = "failed")
        => /\ h.envelope.isError
           /\ Head(h.envelope.content[1].text) = NetworkPrefix

\* C8 (as claimed): every upstream call of a handler that takes a name is
\* given the normalized name, which ends in ".eth".
C8_UpstreamGetsNormalizedName ==
    h.op \in DOMAIN FirstMethod =>
        \A k \in DOMAIN h.sent : /\ h.sent[k].arg = h.normalizedName
                                 /\ endsWithEth(h.sent[k].arg)

\* C9 (as claimed): an invocation in which no upstream call raised and the
\* input was not rejected returns an envelope with isError = false, also when
\* what was asked for is absent.
C9_AbsenceIsNotAnError ==
    (h.pc = "returned" /\ ~h.raised /\ ~h.rejected) => ~h.envelope.isError


----------------------------------------------------------------------------
(* SpecEnriched: getAllRecords beside retry calls with any index *)

\* a name without and a name with the suffix
EnrichedNames == {<<"vitalik">>, <<"vitalik", ".eth">>}

InvokeGetAllRecords == \E name \in EnrichedNames : InvokeNameHandler("getAllRecords", name)

NextEnriched ==
    \/ LoadClients
    \/ \E i \in RotateIndices : retry(i)
    \/ InvokeGetAllRecords
    \/ EnrichedReturn
    \/ EnrichedRaise
    \/ PublicAttemptFail
    \/ PublicAttemptOk
    \/ PublicRaise

SpecEnriched == InitHandlers /\ [][NextEnriched]_vars

\* C11: the exported enriched client is the one built at construction, bound
\* to providerUrls[0], in every state, whatever retry calls have succeeded or
\* failed; every getRecords call of getAllRecords goes to that endpoint; and a
\* retry call, made once the module is loaded, leaves everything but the
\* factory's own client (and what the call returned) as it was.
C11_ExportedClientFixed ==
    /\ [](loaded =>
            /\ justaname = JustaNameInit(At(providerUrls, 0))
            /\ \A k \in DOMAIN h.sent :
                   h.sent[k].client = "justaname" => h.sent[k].endpoint = At(providerUrls, 0))
    /\ [][(loaded /\ (rot' # rot \/ heldClient' # heldClient)) =>
            UNCHANGED <<env, loaded, providerUrls, transports, justaname, calls, h, cls>>]_vars

\* C11 witness: getAllRecords queried providerUrls[0] although a rotation had
\* already moved the factory's client to another endpoint
C11_Witness ==
    /\ h.op = "getAllRecords"
    /\ \E k \in DOMAIN h.sent :
           /\ h.sent[k].client = "justaname"
           /\ h.sent[k].endpoint = At(providerUrls, 0)
           /\ h.sent[k].held # h.sent[k].endpoint
    /\ rot.outcome = "returned"
    /\ heldClient # justaname

====
